---- MODULE Spec2Model ----
(***************************************************************************)
(* Model of the Snips voice-assistant bridge                               *)
(* (homeassistant/components/snips.py): the MQTT message handler           *)
(* message_received, the slot resolution resolve_slot_values and the event *)
(* schema INTENT_SCHEMA.  Cloud.logout (components/cloud) and the IGloLamp *)
(* entity (components/light/iglo) are modelled at the end, each with a     *)
(* specification of its own.                                               *)
(*                                                                         *)
(* A handler invocation is a coroutine with a single suspension point, the *)
(* `yield from intent.async_handle(...)` of line 74.  Everything before it *)
(* runs without interruption (action Receive), everything after it runs    *)
(* without interruption when the dispatcher completes (action Resume).     *)
(* Several invocations can be suspended at the same time.                  *)
(*                                                                         *)
(* Python values: a scalar is tagged with its type (PyNone, PyStr(s),      *)
(* PyInt(n)); the text of an intentName, which the code inspects, is a     *)
(* tuple of one-character strings; a dict is a function whose DOMAIN is    *)
(* the set of keys present; a list is a sequence.                          *)
(***************************************************************************)
EXTENDS Integers, Sequences, FiniteSets, TLC

VARIABLES
    inbox,      \* the payloads the bus delivers on hermes/intent/#, in order
    pc,         \* per invocation: "pending", "awaiting", "returned", "raised"
    frame,      \* locals of the invocations suspended at line 74
    calls,      \* the calls made to intent.async_handle, in order
    intents,    \* the intents that reached a registered intent handler
    results,    \* per invocation whose dispatch completed: the way it ended
    published,  \* the mqtt.async_publish calls, in order
    escaped,    \* the exceptions that left message_received, in order
    logs,       \* per invocation: the records it wrote to _LOGGER
    cloud,      \* the Cloud object of components/cloud, its auth file, and
                \* the position of its logout coroutine
    lamp        \* the IGloLamp entity of components/light/iglo and its device

vars == <<inbox, pc, frame, calls, intents, results, published, escaped,
          logs, cloud, lamp>>

----------------------------------------------------------------------------
(* Bounds of the model *)

\* messages delivered in one run of the concurrent specification
MaxMessages == 2
\* an intentName is a concatenation of at most this many pieces of NamePieces
MaxPieces == 3
\* largest value of each field of a duration slot
MaxWeeks == 1
MaxDays == 1
MaxHours == 2
MaxMinutes == 5
MaxSeconds == 1
\* longest 'slots' list of the events that vary the slot names
MaxSlots == 2
\* the brightness values asked of the lamp are the multiples of 255/MaxLevels
MaxLevels == 5

----------------------------------------------------------------------------
(* Python values *)

PyNone == [py |-> "None"]
PyStr(s) == [py |-> "str", s |-> s]
PyInt(n) == [py |-> "int", n |-> n]

\* the outcome of an evaluation: a value, or an exception raised
Ok(v) == [exc |-> "", value |-> v]
Raise(e) == [exc |-> e]

\* a dict with the key present when S = {v} and absent when S = {}
Opt(key, S) == IF S = {} THEN <<>> ELSE key :> (CHOOSE v \in S : TRUE)

Last(seq) == seq[Len(seq)]

RECURSIVE Flatten(_)
Flatten(ss) == IF ss = <<>> THEN <<>> ELSE Head(ss) \o Flatten(Tail(ss))

\* str.startswith
startswith(s, prefix) ==
    /\ Len(s) >= Len(prefix)
    /\ SubSeq(s, 1, Len(prefix)) = prefix

\* str.find, 1-based: the lowest index where sep occurs in s, 0 when none
find(s, sep) ==
    LET hits == {i \in 1..(Len(s) - Len(sep) + 1) :
                     SubSeq(s, i, i + Len(sep) - 1) = sep}
    IN IF hits = {} THEN 0 ELSE CHOOSE i \in hits : \A j \in hits : i <= j

\* str.split(sep): scans left to right, cutting at each occurrence found
RECURSIVE split(_, _)
split(s, sep) ==
    LET i == find(s, sep)
    IN IF i = 0 THEN <<s>>
       ELSE <<SubSeq(s, 1, i - 1)>>
                \o split(SubSeq(s, i + Len(sep), Len(s)), sep)

\* datetime.timedelta(weeks, days, hours, minutes, seconds) for non-negative
\* integers: the normalised (days, seconds, microseconds) triple
timedelta(weeks, days, hours, minutes, seconds) ==
    LET total == weeks * 7 * 86400 + days * 86400 + hours * 3600
                 + minutes * 60 + seconds
    IN [days |-> total \div 86400, seconds |-> total % 86400,
        microseconds |-> 0]

----------------------------------------------------------------------------
(* Constants of the component *)

SNIPS_DOMAIN == "snips"
END_SESSION_TOPIC == "hermes/dialogueManager/endSession"
DURATION_ENTITY == "snips/duration"
DEFAULT_SESSION == "default"
USER_PREFIX == <<"u", "s", "e", "r", "_">>
USER_SEP == <<"_", "_">>
NAME_SEP == <<":">>
UNKNOWN_INTENT_TEXT == "Unknown Intent"
INTENT_ERROR_TEXT == "Error while handling intent"

----------------------------------------------------------------------------
(* The event schema and the pure parts of the handler *)

\* json.loads(payload): a payload that is not JSON text raises
\* json.JSONDecodeError, a subclass of ValueError
json_loads(payload) ==
    IF payload.wellformed THEN Ok(payload.doc) ELSE Raise("ValueError")

\* the slot schema, had 'kind' been declared vol.Optional
SlotSchemaOk_KindOptional(slot) ==
    /\ "slotName" \in DOMAIN slot
    /\ slot.slotName.py = "str"
    /\ "value" \in DOMAIN slot

\* one element of the 'slots' list against the schema of lines 33-40
SlotSchemaOk(slot) ==
    /\ "slotName" \in DOMAIN slot
    /\ slot.slotName.py = "str"
    /\ "value" \in DOMAIN slot
    /\ "kind" \in DOMAIN slot.value
    /\ slot.value.kind.py = "str"

\* INTENT_SCHEMA(request): the request itself when it has the required keys
\* with str values (extra keys are allowed at every level), vol.Invalid
\* otherwise
INTENT_SCHEMA(request) ==
    IF /\ request.kind = "object"
       /\ "input" \in DOMAIN request.obj
       /\ request.obj.input.py = "str"
       /\ "intent" \in DOMAIN request.obj
       /\ "intentName" \in DOMAIN request.obj.intent
       /\ request.obj.intent.intentName.py = "str"
       /\ "slots" \in DOMAIN request.obj =>
              \A i \in 1..Len(request.obj.slots) :
                  SlotSchemaOk(request.obj.slots[i])
    THEN Ok(request.obj)
    ELSE Raise("Invalid")

\* the intent type, had the user_ prefix not been treated apart
intent_type_of_ColonOnly(intentName) ==
    Last(split(intentName, NAME_SEP))

\* lines 64-67: the intent type of an intentName
intent_type_of(intentName) ==
    IF startswith(intentName, USER_PREFIX)
    THEN Last(split(intentName, USER_SEP))
    ELSE Last(split(intentName, NAME_SEP))

DurationFields == {"weeks", "days", "hours", "minutes", "seconds"}

\* resolve_slot_values(slot): a missing key raises KeyError
resolve_slot_values(slot) ==
    LET generic ==
            IF "value" \in DOMAIN slot.value THEN Ok(slot.value.value)
            ELSE IF "rawValue" \in DOMAIN slot THEN Ok(slot.rawValue)
            ELSE Raise("KeyError")
        entity == IF "entity" \in DOMAIN slot THEN slot.entity ELSE PyNone
    IN IF generic.exc # "" THEN generic
       ELSE IF entity = PyStr(DURATION_ENTITY)
       THEN IF DurationFields \subseteq DOMAIN slot.value
            THEN LET delta == timedelta(slot.value.weeks.n,
                                        slot.value.days.n,
                                        slot.value.hours.n,
                                        slot.value.minutes.n,
                                        slot.value.seconds.n)
                 IN Ok(PyInt(delta.seconds))
            ELSE Raise("KeyError")
       ELSE generic

\* the slot mapping, had a name already present been left as it was
RECURSIVE build_slots_FirstWins(_, _)
build_slots_FirstWins(slotlist, acc) ==
    IF slotlist = <<>> THEN Ok(acc)
    ELSE LET slot == Head(slotlist)
             r == resolve_slot_values(slot)
         IN IF r.exc # "" THEN r
            ELSE build_slots_FirstWins(Tail(slotlist),
                     acc @@ (slot.slotName.s :> [value |-> r.value]))

\* lines 69-71: the slot mapping, built in list order; a later slot of the
\* same name overwrites the earlier one, the first failing slot raises
RECURSIVE build_slots(_, _)
build_slots(slotlist, acc) ==
    IF slotlist = <<>> THEN Ok(acc)
    ELSE LET slot == Head(slotlist)
             r == resolve_slot_values(slot)
         IN IF r.exc # "" THEN r
            ELSE build_slots(Tail(slotlist),
                             (slot.slotName.s :> [value |-> r.value]) @@ acc)

\* json.dumps of one scalar
json_scalar(v) ==
    CASE v.py = "None" -> [json |-> "null"]
      [] v.py = "str" -> [json |-> "string", chars |-> v.s]
      [] v.py = "int" -> [json |-> "number", digits |-> v.n]

\* json.dumps of the notification dict of lines 86-87
json_dumps(notification) ==
    [k \in DOMAIN notification |-> json_scalar(notification[k])]

\* isinstance(exc, cls) for the exceptions of homeassistant.helpers.intent:
\* UnknownIntent is a subclass of IntentError
IsInstance(exc, cls) ==
    \/ exc = cls
    \/ exc = "UnknownIntent" /\ cls = "IntentError"

\* the reply text, had the IntentError branch not assigned snips_response
reply_of_ErrorUnassigned(outcome) ==
    IF outcome.exc = ""
    THEN IF "plain" \in DOMAIN outcome.value.speech
         THEN Ok(outcome.value.speech.plain.speech)
         ELSE Ok(PyNone)
    ELSE IF IsInstance(outcome.exc, "UnknownIntent")
    THEN Ok(PyStr(UNKNOWN_INTENT_TEXT))
    ELSE IF IsInstance(outcome.exc, "IntentError")
    THEN Ok(PyNone)
    ELSE Raise(outcome.exc)

\* the reply text, had the speech of any type been used
reply_of_AnySpeech(outcome) ==
    IF outcome.exc = ""
    THEN IF DOMAIN outcome.value.speech # {}
         THEN Ok(outcome.value.speech[
                     CHOOSE k \in DOMAIN outcome.value.speech : TRUE].speech)
         ELSE Ok(PyNone)
    ELSE IF IsInstance(outcome.exc, "UnknownIntent")
    THEN Ok(PyStr(UNKNOWN_INTENT_TEXT))
    ELSE IF IsInstance(outcome.exc, "IntentError")
    THEN Ok(PyStr(INTENT_ERROR_TEXT))
    ELSE Raise(outcome.exc)

\* lines 73-84: the reply text decided by the way the dispatch ended; an
\* exception that is no IntentError is not caught
reply_of(outcome) ==
    IF outcome.exc = ""
    THEN IF "plain" \in DOMAIN outcome.value.speech
         THEN Ok(outcome.value.speech.plain.speech)
         ELSE Ok(PyNone)
    ELSE IF IsInstance(outcome.exc, "UnknownIntent")
    THEN Ok(PyStr(UNKNOWN_INTENT_TEXT))
    ELSE IF IsInstance(outcome.exc, "IntentError")
    THEN Ok(PyStr(INTENT_ERROR_TEXT))
    ELSE Raise(outcome.exc)

\* the notification, had the event's sessionId not been read
notification_of_DefaultSession(request, snips_response) ==
    [sessionId |-> PyStr(DEFAULT_SESSION), text |-> snips_response]

\* lines 86-87: the notification dict
notification_of(request, snips_response) ==
    [sessionId |-> IF "sessionId" \in DOMAIN request
                   THEN request.sessionId
                   ELSE PyStr(DEFAULT_SESSION),
     text |-> snips_response]

\* the records the handler writes to _LOGGER after the dispatch
reply_logs(outcome) ==
    IF outcome.exc = "" THEN <<>>
    ELSE IF IsInstance(outcome.exc, "UnknownIntent")
    THEN <<[level |-> "warning", msg |-> "Received unknown intent"]>>
    ELSE IF IsInstance(outcome.exc, "IntentError")
    THEN <<[level |-> "exception", msg |-> "Error while handling intent"]>>
    ELSE <<>>

\* lines 50-75: message_received up to its suspension point.  The result
\* says how this part ends: "return" (the message is dropped), "raise" (an
\* exception leaves the handler) or "await" (intent.async_handle was called
\* and the coroutine is suspended with the locals in frame).
message_received(payload) ==
    LET debug == <<[level |-> "debug", msg |-> "New intent"]>>
        parsed == json_loads(payload)
    IN IF parsed.exc = "TypeError"
       THEN [next |-> "return",
             logs |-> debug \o <<[level |-> "error",
                                  msg |-> "Received invalid JSON"]>>]
       ELSE IF parsed.exc # ""
       THEN [next |-> "raise", logs |-> debug, exc |-> parsed.exc]
       ELSE
       LET validated == INTENT_SCHEMA(parsed.value)
       IN IF validated.exc = "Invalid"
          THEN [next |-> "return",
                logs |-> debug \o <<[level |-> "error",
                                     msg |-> "Intent has invalid schema"]>>]
          ELSE
          LET request == validated.value
              intent_type == intent_type_of(request.intent.intentName.s)
              slots == build_slots(IF "slots" \in DOMAIN request
                                   THEN request.slots ELSE <<>>, <<>>)
          IN IF slots.exc # ""
             THEN [next |-> "raise", logs |-> debug, exc |-> slots.exc]
             ELSE [next |-> "await", logs |-> debug,
                   frame |-> [request |-> request,
                              intent_type |-> intent_type,
                              slots |-> slots.value]]

----------------------------------------------------------------------------
(* The intent dispatcher, homeassistant.helpers.intent.async_handle *)

Lights == <<"L", "i", "g", "h", "t", "s">>
spokenIntent == <<"s", "p", "o", "k", "e", "n">>
unknownIntent == <<"u", "n", "k", "n", "o", "w", "n">>
SetTimer == <<"S", "e", "t", "T", "i", "m", "e", "r">>

\* the intent types that have a registered handler
RegisteredIntents == {Lights, spokenIntent, SetTimer, <<"L">>}

\* the responses a handler can give: no speech, plain speech, ssml only
Responses ==
    {[speech |-> <<>>],
     [speech |-> [plain |-> [speech |-> PyStr("I am speaking to you"),
                             extra_data |-> PyNone]]],
     [speech |-> [ssml |-> [speech |-> PyStr("<speak>hello</speak>"),
                            extra_data |-> PyNone]]]}

\* the ways async_handle(hass, platform, intent_type, slots, text) can end
DispatchOutcomes(intent_type) ==
    IF intent_type \notin RegisteredIntents
    THEN {Raise("UnknownIntent")}
    ELSE {Ok(r) : r \in Responses} \cup {Raise("IntentError")}

----------------------------------------------------------------------------
(* The payloads the bus delivers *)

\* a payload that is JSON text of an object with the given optional members
\* (each argument is the empty set, or the set of the one value)
Event(input, intent, sessionId, slots) ==
    [wellformed |-> TRUE,
     doc |-> [kind |-> "object",
              obj |-> Opt("input", input) @@ Opt("intent", intent)
                      @@ Opt("sessionId", sessionId) @@ Opt("slots", slots)]]

\* a payload that is not JSON text
NotJson == [wellformed |-> FALSE]
\* a payload that is JSON text of something other than an object
JsonScalar == [wellformed |-> TRUE, doc |-> [kind |-> "number"]]

IntentNamed(name) == [intentName |-> PyStr(name)]
SomeInput == PyStr("turn the lights green")
SomeSession == PyStr("abcdef0123456789")

\* a slot as in test_snips_intent
CustomSlot ==
    [slotName |-> PyStr("light_color"),
     value |-> [kind |-> PyStr("Custom"), value |-> PyStr("green")]]
\* a slot the schema accepts that has neither value.value nor rawValue
BareSlot ==
    [slotName |-> PyStr("light_color"), value |-> [kind |-> PyStr("Custom")]]
\* slots the schema rejects
NoNameSlot == [value |-> [kind |-> PyStr("Custom"), value |-> PyStr("green")]]
NoValueSlot == [slotName |-> PyStr("light_color")]
NoKindSlot ==
    [slotName |-> PyStr("light_color"), value |-> [value |-> PyStr("green")]]

\* a slot as in test_snips_intent_with_duration
DurationSlot(weeks, days, hours, minutes, seconds) ==
    [rawValue |-> PyStr("five minutes"),
     value |-> [kind |-> PyStr("Duration"), weeks |-> PyInt(weeks),
                days |-> PyInt(days), hours |-> PyInt(hours),
                minutes |-> PyInt(minutes), seconds |-> PyInt(seconds),
                precision |-> PyStr("Exact")],
     entity |-> PyStr(DURATION_ENTITY),
     slotName |-> PyStr("timer_duration")]

\* events the schema accepts
ValidEvents ==
    {Event({SomeInput}, {IntentNamed(name)}, sessionId, slots) :
        name \in {Lights, unknownIntent},
        sessionId \in {{}, {SomeSession}},
        slots \in {{}, {<<>>}, {<<CustomSlot>>}, {<<BareSlot>>}}}

\* JSON payloads the schema rejects
InvalidEvents ==
    {JsonScalar,
     Event({}, {IntentNamed(Lights)}, {}, {}),
     Event({PyInt(5)}, {IntentNamed(Lights)}, {}, {}),
     Event({SomeInput}, {}, {}, {}),
     Event({SomeInput}, {<<>>}, {}, {}),
     Event({SomeInput}, {IntentNamed(Lights)}, {}, {<<NoNameSlot>>}),
     Event({SomeInput}, {IntentNamed(Lights)}, {}, {<<NoValueSlot>>}),
     Event({SomeInput}, {IntentNamed(Lights)}, {}, {<<CustomSlot, NoKindSlot>>})}

Payloads == {NotJson} \cup InvalidEvents \cup ValidEvents

\* intent names: the two of the tests and every concatenation of at most
\* MaxPieces pieces
NamePieces == {USER_PREFIX, <<"_">>, <<":">>, <<"L">>}
IntentNames ==
    {USER_PREFIX \o <<"A", "B", "C", "D", "E", "F", "1", "2", "3">>
         \o USER_SEP \o Lights,
     <<"u", "s", "e", "r", "n", "a", "m", "e">> \o NAME_SEP \o Lights}
    \cup {Flatten(ps) : ps \in UNION {[1..n -> NamePieces] : n \in 0..MaxPieces}}

NameEvents ==
    {Event({SomeInput}, {IntentNamed(name)}, {}, {<<>>}) : name \in IntentNames}

DurationEvents ==
    {Event({PyStr("set a timer of five minutes")}, {IntentNamed(SetTimer)}, {},
           {<<DurationSlot(w, d, h, m, sec)>>}) :
        w \in 0..MaxWeeks, d \in 0..MaxDays, h \in 0..MaxHours,
        m \in 0..MaxMinutes, sec \in 0..MaxSeconds}

\* one non-duration slot in every shape the schema accepts: with or without
\* value.value, value.rawValue and the slot's own rawValue
ShapedSlot(value, innerRaw, outerRaw) ==
    [slotName |-> PyStr("light_color"),
     value |-> [kind |-> PyStr("Custom")] @@ Opt("value", value)
               @@ Opt("rawValue", innerRaw)]
    @@ Opt("rawValue", outerRaw)

ShapeEvents ==
    {Event({SomeInput}, {IntentNamed(Lights)}, {},
           {<<ShapedSlot(value, innerRaw, outerRaw)>>}) :
        value \in {{}, {PyStr("green")}},
        innerRaw \in {{}, {PyStr("vert")}},
        outerRaw \in {{}, {PyStr("the green one")}}}

\* slots of two names and two values, and the lists of at most MaxSlots of
\* them
NamedSlots ==
    {[slotName |-> PyStr(name),
      value |-> [kind |-> PyStr("Custom"), value |-> PyStr(v)]] :
        name \in {"light_color", "room"}, v \in {"green", "red"}}

SlotListEvents ==
    {Event({SomeInput}, {IntentNamed(Lights)}, {}, {}),
     Event({PyStr("what to do")}, {IntentNamed(unknownIntent)}, {}, {})}
    \cup {Event({SomeInput}, {IntentNamed(Lights)}, {}, {slots}) :
             slots \in UNION {[1..n -> NamedSlots] : n \in 0..MaxSlots}}

----------------------------------------------------------------------------
(* State machine *)

Handlers == DOMAIN inbox

\* the other two components are not set up
NoCloud == [configured |-> FALSE]
NoLamp == [configured |-> FALSE]

Start(messages) ==
    /\ inbox \in messages
    /\ pc = [h \in DOMAIN inbox |-> "pending"]
    /\ frame = <<>>
    /\ calls = <<>>
    /\ intents = <<>>
    /\ results = <<>>
    /\ published = <<>>
    /\ escaped = <<>>
    /\ logs = [h \in DOMAIN inbox |-> <<>>]
    /\ cloud = NoCloud
    /\ lamp = NoLamp

\* after async_setup: the handler is subscribed, up to MaxMessages messages
\* are on their way
Init == Start(UNION {[1..n -> Payloads] : n \in 1..MaxMessages})

\* a single message, of any intent name or any duration
InitOne ==
    Start([1..1 -> NameEvents \cup DurationEvents \cup ShapeEvents
                       \cup SlotListEvents])

\* the arguments of intent.async_handle, had the intentName been passed as
\* it came
call_of_RawName(h, locals) ==
    [h |-> h, platform |-> SNIPS_DOMAIN,
     intent_type |-> locals.request.intent.intentName.s,
     slots |-> locals.slots,
     text_input |-> locals.request.input]

\* lines 74-75: the arguments of the call of intent.async_handle made by
\* invocation h with these locals
call_of(h, locals) ==
    [h |-> h, platform |-> SNIPS_DOMAIN,
     intent_type |-> locals.intent_type,
     slots |-> locals.slots,
     text_input |-> locals.request.input]

\* the locals read after the suspension, had they been kept in one place
\* shared by all invocations and overwritten by each new message
frame_of_Shared(h) ==
    frame[CHOOSE k \in DOMAIN frame : \A j \in DOMAIN frame : j <= k]

\* the locals of invocation h: each call of message_received has its own
frame_of(h) == frame[h]

\* The bus delivers the next message: message_received runs up to its
\* suspension point.
Receive(h) ==
    /\ pc[h] = "pending"
    /\ \A k \in Handlers : k < h => pc[k] # "pending"
    /\ LET r == message_received(inbox[h])
       IN /\ logs' = [logs EXCEPT ![h] = @ \o r.logs]
          /\ CASE r.next = "return" ->
                    /\ pc' = [pc EXCEPT ![h] = "returned"]
                    /\ UNCHANGED <<frame, calls, escaped>>
               [] r.next = "raise" ->
                    /\ pc' = [pc EXCEPT ![h] = "raised"]
                    /\ escaped' = Append(escaped, [h |-> h, exc |-> r.exc])
                    /\ UNCHANGED <<frame, calls>>
               [] r.next = "await" ->
                    /\ pc' = [pc EXCEPT ![h] = "awaiting"]
                    /\ frame' = (h :> r.frame) @@ frame
                    /\ calls' = Append(calls, call_of(h, r.frame))
                    /\ UNCHANGED escaped
    /\ UNCHANGED <<inbox, intents, results, published, cloud, lamp>>

\* the call of intent.async_handle that invocation h is suspended on
call_by(h) == calls[CHOOSE i \in DOMAIN calls : calls[i].h = h]

\* intent.async_handle completes for a suspended invocation, which runs to
\* its end: lines 76-91.
Resume(h) ==
    /\ pc[h] = "awaiting"
    /\ \E outcome \in DispatchOutcomes(call_by(h).intent_type) :
         LET reply == reply_of(outcome)
         IN /\ intents' = IF call_by(h).intent_type \in RegisteredIntents
                          THEN Append(intents, call_by(h))
                          ELSE intents
            /\ results' = (h :> outcome) @@ results
            /\ IF reply.exc # ""
               THEN /\ pc' = [pc EXCEPT ![h] = "raised"]
                    /\ escaped' = Append(escaped, [h |-> h, exc |-> reply.exc])
                    /\ logs' = logs
                    /\ published' = published
               ELSE /\ pc' = [pc EXCEPT ![h] = "returned"]
                    /\ escaped' = escaped
                    /\ logs' = [logs EXCEPT ![h] =
                                   @ \o reply_logs(outcome)
                                     \o <<[level |-> "debug",
                                           msg |-> "send_response"]>>]
                    /\ published' = Append(published,
                          [h |-> h, topic |-> END_SESSION_TOPIC,
                           payload |-> json_dumps(
                               notification_of(frame_of(h).request,
                                               reply.value))])
    /\ frame' = [k \in DOMAIN frame \ {h} |-> frame[k]]
    /\ UNCHANGED <<inbox, calls, cloud, lamp>>

\* some pending message is delivered
Deliver == \E h \in Handlers : Receive(h)

\* some dispatch completes
Complete == \E h \in Handlers : Resume(h)

Next == Deliver \/ Complete

Spec == Init /\ [][Next]_vars

SpecOne == InitOne /\ [][Next]_vars

----------------------------------------------------------------------------
(* Cloud: the credentials, the stored auth file and logout *)

\* tokens a stored auth file can hold; _decode_claims raises ValueError on
\* the last one
IdTokens == {PyStr("jwt-a"), PyStr("jwt-b"), PyStr("garbage")}
RefreshTokens == {PyStr("refresh-a"), PyStr("refresh-b")}

\* _decode_claims(token) returns claims and does not raise
TokenDecodes(token) == token.py = "str" /\ token.s # "garbage"

\* the file at user_info_path: absent, or as write_user_info writes it
AuthFiles ==
    {[exists |-> FALSE]}
    \cup {[exists |-> TRUE,
           info |-> [id_token |-> i, access_token |-> a, refresh_token |-> r]] :
             i \in IdTokens, a \in IdTokens, r \in RefreshTokens}

\* Cloud.__init__, with the auth file a previous run left
NewCloud(file) ==
    [configured |-> TRUE,
     id_token |-> PyNone,
     access_token |-> PyNone,
     refresh_token |-> PyNone,
     gactions_config |-> PyNone,
     iot |-> "disconnected",
     auth_file |-> file,
     started |-> FALSE,
     logout |-> "idle",
     before |-> PyNone]

\* Cloud.is_logged_in
is_logged_in(c) == c.id_token # PyNone

\* logout, had the refresh token been left in place
logout_clear_KeepsRefresh(c) ==
    [c EXCEPT !.id_token = PyNone, !.access_token = PyNone,
              !.gactions_config = PyNone]

\* lines 200-203 of logout: the four assignments
logout_clear(c) ==
    [c EXCEPT !.id_token = PyNone, !.access_token = PyNone,
              !.refresh_token = PyNone, !.gactions_config = PyNone]

\* _start_cloud, run once on EVENT_HOMEASSISTANT_START: loads the stored
\* credentials when both tokens decode and schedules the IoT connection
StartCloud ==
    /\ cloud.configured
    /\ ~cloud.started
    /\ cloud.logout = "idle"
    /\ cloud' =
         IF ~cloud.auth_file.exists
         THEN [cloud EXCEPT !.started = TRUE]
         ELSE IF ~(TokenDecodes(cloud.auth_file.info.id_token)
                     /\ TokenDecodes(cloud.auth_file.info.access_token))
         THEN [cloud EXCEPT !.started = TRUE]
         ELSE [cloud EXCEPT !.started = TRUE,
                            !.id_token = cloud.auth_file.info.id_token,
                            !.access_token = cloud.auth_file.info.access_token,
                            !.refresh_token =
                                cloud.auth_file.info.refresh_token,
                            !.iot = "connecting"]
    /\ UNCHANGED <<inbox, pc, frame, calls, intents, results, published,
                   escaped, logs, lamp>>

\* the scheduled iot.connect() job runs
IotConnect ==
    /\ cloud.configured
    /\ cloud.iot = "connecting"
    /\ cloud' = [cloud EXCEPT !.iot = "connected"]
    /\ UNCHANGED <<inbox, pc, frame, calls, intents, results, published,
                   escaped, logs, lamp>>

\* the gactions_config property is read: the config is built from the
\* claims of the id token and cached (reading it while no token decodes
\* raises and caches nothing)
GactionsConfig ==
    /\ cloud.configured
    /\ cloud.gactions_config = PyNone
    /\ TokenDecodes(cloud.id_token)
    /\ cloud' = [cloud EXCEPT !.gactions_config =
                                  [agent_user_id |-> cloud.id_token.s]]
    /\ UNCHANGED <<inbox, pc, frame, calls, intents, results, published,
                   escaped, logs, lamp>>

\* logout is called and suspends on iot.disconnect()
LogoutBegin ==
    /\ cloud.configured
    /\ cloud.started
    /\ cloud.logout \in {"idle", "done", "raised"}
    /\ cloud' = [cloud EXCEPT !.logout = "disconnecting",
                              !.before = [id_token |-> cloud.id_token,
                                          access_token |-> cloud.access_token,
                                          refresh_token |-> cloud.refresh_token,
                                          gactions_config |->
                                              cloud.gactions_config,
                                          auth_file |-> cloud.auth_file]]
    /\ UNCHANGED <<inbox, pc, frame, calls, intents, results, published,
                   escaped, logs, lamp>>

\* iot.disconnect() completes: the credentials are cleared and the removal
\* of the auth file is handed to the executor
LogoutClear ==
    /\ cloud.configured
    /\ cloud.logout = "disconnecting"
    /\ cloud' = [logout_clear(cloud) EXCEPT !.iot = "disconnected",
                                            !.logout = "removing"]
    /\ UNCHANGED <<inbox, pc, frame, calls, intents, results, published,
                   escaped, logs, lamp>>

\* os.remove(user_info_path) runs: it raises FileNotFoundError, which leaves
\* logout, when there is no file
LogoutRemove ==
    /\ cloud.configured
    /\ cloud.logout = "removing"
    /\ cloud' = IF cloud.auth_file.exists
                THEN [cloud EXCEPT !.auth_file = [exists |-> FALSE],
                                   !.logout = "done"]
                ELSE [cloud EXCEPT !.logout = "raised"]
    /\ UNCHANGED <<inbox, pc, frame, calls, intents, results, published,
                   escaped, logs, lamp>>

InitCloud ==
    /\ inbox = <<>>
    /\ pc = <<>>
    /\ frame = <<>>
    /\ calls = <<>>
    /\ intents = <<>>
    /\ results = <<>>
    /\ published = <<>>
    /\ escaped = <<>>
    /\ logs = <<>>
    /\ lamp = NoLamp
    /\ \E file \in AuthFiles : cloud = NewCloud(file)

NextCloud ==
    \/ StartCloud
    \/ IotConnect
    \/ GactionsConfig
    \/ LogoutBegin
    \/ LogoutClear
    \/ LogoutRemove

SpecCloud == InitCloud /\ [][NextCloud]_vars

----------------------------------------------------------------------------
(* IGloLamp: the entity and the lamp it drives *)

\* turn_on, line 100: int((brightness / 255.0) * 200.0).  For every integer
\* of 0..255 the float expression equals the exact quotient rounded down.
to_lamp_brightness(brightness) == (brightness * 200) \div 255

\* the brightness property, line 63: int((self._brightness / 200.0) * 255)
brightness_of(l) == (l.brightness * 255) \div 200

\* what turn_on can be asked: any of brightness, rgb_color and color_temp
RequestedBrightness == {(k * 255) \div MaxLevels : k \in 0..MaxLevels}
TurnOnArgs ==
    {Opt("brightness", b) @@ Opt("rgb_color", rgb) @@ Opt("color_temp", ct) :
        b \in {{}} \cup {{x} : x \in RequestedBrightness},
        rgb \in {{}, {<<255, 0, 0>>}},
        ct \in {{}, {1}, {255}}}

\* the states the lamp itself can be in when the entity is created
LampStates ==
    [on : BOOLEAN, brightness : {0, 200}, rgb : {<<0, 0, 0>>},
     white : {0, 255}]

\* IGloLamp.__init__
NewLamp(device) ==
    [configured |-> TRUE,
     on |-> TRUE,
     brightness |-> 255,
     rgb |-> <<0, 0, 0>>,
     color_temp |-> 0,
     device |-> device]

\* turn_on(**kwargs)
turn_on(kwargs) ==
    /\ lamp.configured
    /\ LET switched == IF ~lamp.on THEN [lamp.device EXCEPT !.on = TRUE]
                       ELSE lamp.device
       IN lamp' =
           [lamp EXCEPT !.device =
               IF "brightness" \in DOMAIN kwargs
               THEN [switched EXCEPT !.brightness =
                                         to_lamp_brightness(kwargs.brightness)]
               ELSE IF "rgb_color" \in DOMAIN kwargs
               THEN [switched EXCEPT !.rgb = kwargs.rgb_color]
               ELSE IF "color_temp" \in DOMAIN kwargs
               THEN [switched EXCEPT !.white = 255 - kwargs.color_temp]
               ELSE switched]
    /\ UNCHANGED <<inbox, pc, frame, calls, intents, results, published,
                   escaped, logs, cloud>>

\* turn_off()
turn_off ==
    /\ lamp.configured
    /\ lamp' = [lamp EXCEPT !.device.on = FALSE]
    /\ UNCHANGED <<inbox, pc, frame, calls, intents, results, published,
                   escaped, logs, cloud>>

\* update(): the entity copies the state the lamp reports
update ==
    /\ lamp.configured
    /\ lamp' = [lamp EXCEPT !.on = lamp.device.on,
                            !.brightness = lamp.device.brightness,
                            !.rgb = lamp.device.rgb,
                            !.color_temp = 255 - lamp.device.white]
    /\ UNCHANGED <<inbox, pc, frame, calls, intents, results, published,
                   escaped, logs, cloud>>

TurnOn == \E kwargs \in TurnOnArgs : turn_on(kwargs)

InitLamp ==
    /\ inbox = <<>>
    /\ pc = <<>>
    /\ frame = <<>>
    /\ calls = <<>>
    /\ intents = <<>>
    /\ results = <<>>
    /\ published = <<>>
    /\ escaped = <<>>
    /\ logs = <<>>
    /\ cloud = NoCloud
    /\ \E device \in LampStates : lamp = NewLamp(device)

NextLamp == TurnOn \/ turn_off \/ update

SpecLamp == InitLamp /\ [][NextLamp]_vars

----------------------------------------------------------------------------
(* Vocabulary of the properties *)

CallsOf(h) == {i \in DOMAIN calls : calls[i].h = h}
HandledOf(h) == {i \in DOMAIN intents : intents[i].h = h}
PublishesOf(h) == {i \in DOMAIN published : published[i].h = h}
Finished(h) == pc[h] \in {"returned", "raised"}
Logged(h, level) == \E i \in DOMAIN logs[h] : logs[h][i].level = level

JsonString(s) == [json |-> "string", chars |-> s]
JsonNull == [json |-> "null"]

\* the payload is JSON text of an object
IsJsonObject(p) == p.wellformed /\ p.doc.kind = "object"

\* the payload passes JSON parsing and schema validation
IsValidEvent(p) ==
    /\ json_loads(p).exc = ""
    /\ INTENT_SCHEMA(json_loads(p).value).exc = ""

\* invocation h made exactly one publish, to the fixed topic, with this text
PublishedOnce(h, text) ==
    /\ Cardinality(PublishesOf(h)) = 1
    /\ \A i \in PublishesOf(h) :
           /\ published[i].topic = "hermes/dialogueManager/endSession"
           /\ published[i].payload.text = text

----------------------------------------------------------------------------
(* Properties *)

\* C1: every message that passes JSON parsing and schema validation leads to
\* exactly one call of the intent dispatcher followed by exactly one publish
\* to hermes/dialogueManager/endSession, however the dispatch ends; never
\* more than one of either.
C1_OneDispatchThenOnePublish ==
    \A h \in Handlers :
        IsValidEvent(inbox[h]) =>
            /\ Cardinality(CallsOf(h)) <= 1
            /\ Cardinality(PublishesOf(h)) <= 1
            /\ PublishesOf(h) # {} => CallsOf(h) # {}
            /\ Finished(h) =>
                   /\ Cardinality(CallsOf(h)) = 1
                   /\ Cardinality(PublishesOf(h)) = 1
                   /\ \A i \in PublishesOf(h) :
                          published[i].topic
                              = "hermes/dialogueManager/endSession"

\* C2: no exception leaves message_received: every invocation that has ended
\* has returned, after a silent drop or after publishing a notification.
C2_NoExceptionLeavesHandler ==
    /\ escaped = <<>>
    /\ \A h \in Handlers :
           /\ pc[h] # "raised"
           /\ pc[h] = "returned" =>
                  \/ CallsOf(h) = {} /\ PublishesOf(h) = {}
                  \/ Cardinality(PublishesOf(h)) = 1

\* C3: a payload that is not valid JSON is logged and discarded: the handler
\* returns normally, having published nothing and dispatched nothing.
C3_NotJsonLoggedAndDiscarded ==
    \A h \in Handlers :
        (~inbox[h].wellformed /\ pc[h] # "pending") =>
            /\ pc[h] = "returned"
            /\ Logged(h, "error")
            /\ CallsOf(h) = {}
            /\ PublishesOf(h) = {}

\* the event lacks 'input' or 'intent.intentName', or one of its slots lacks
\* 'slotName' or lacks a 'value' object with 'kind'
LacksRequiredField(obj) ==
    \/ "input" \notin DOMAIN obj
    \/ "intent" \notin DOMAIN obj
    \/ "intentName" \notin DOMAIN obj.intent
    \/ /\ "slots" \in DOMAIN obj
       /\ \E i \in DOMAIN obj.slots :
              \/ "slotName" \notin DOMAIN obj.slots[i]
              \/ "value" \notin DOMAIN obj.slots[i]
              \/ "kind" \notin DOMAIN obj.slots[i].value

\* C4: a JSON payload that violates the event schema (no 'input', no
\* 'intent.intentName', a slot without 'slotName' or without a 'value' object
\* with 'kind') is dropped without side effects: it is never dispatched and
\* nothing is published for it, and the handler returns.
C4_SchemaViolationDropped ==
    \A h \in Handlers :
        (IsJsonObject(inbox[h]) /\ LacksRequiredField(inbox[h].doc.obj)) =>
            /\ pc[h] \in {"pending", "returned"}
            /\ CallsOf(h) = {}
            /\ HandledOf(h) = {}
            /\ PublishesOf(h) = {}

\* a message whose second slot lacks 'kind' has been handled
C4_Witness ==
    \E h \in Handlers :
        /\ IsJsonObject(inbox[h])
        /\ "slots" \in DOMAIN inbox[h].doc.obj
        /\ \E i \in DOMAIN inbox[h].doc.obj.slots :
               /\ "value" \in DOMAIN inbox[h].doc.obj.slots[i]
               /\ "kind" \notin DOMAIN inbox[h].doc.obj.slots[i].value
        /\ pc[h] = "returned"
        /\ Logged(h, "error")

\* C5: every valid event whose intent type has no registered handler gets
\* exactly one publish, of the text 'Unknown Intent' to
\* hermes/dialogueManager/endSession, and reaches no intent handler.
C5_UnknownIntentReply ==
    \A h \in Handlers :
        (/\ IsValidEvent(inbox[h])
         /\ intent_type_of(inbox[h].doc.obj.intent.intentName.s)
                \notin RegisteredIntents
         /\ Finished(h)) =>
            /\ PublishedOnce(h, JsonString("Unknown Intent"))
            /\ HandledOf(h) = {}

\* C6: when the dispatch fails with an intent-handling error that is not
\* unknown-intent, exactly one notification is published and its text is
\* 'Error while handling intent'.
C6_HandlingErrorReply ==
    \A h \in DOMAIN results :
        results[h].exc = "IntentError" =>
            PublishedOnce(h, JsonString("Error while handling intent"))

\* a dispatch ended in an intent-handling error and its handler has returned
C6_Witness ==
    \E h \in DOMAIN results :
        /\ results[h].exc = "IntentError"
        /\ pc[h] = "returned"
        /\ Logged(h, "exception")

\* C7: when the dispatch succeeds, the published text is the plain speech of
\* the response when it has plain speech, and null otherwise.
C7_SuccessReply ==
    \A h \in DOMAIN results :
        results[h].exc = "" =>
            PublishedOnce(h,
                IF "plain" \in DOMAIN results[h].value.speech
                THEN JsonString(results[h].value.speech.plain.speech.s)
                ELSE JsonNull)

\* one dispatch succeeded with plain speech, another with ssml speech only,
\* and both handlers have returned
C7_Witness ==
    \E g, h \in DOMAIN results :
        /\ results[g].exc = "" /\ results[h].exc = ""
        /\ "plain" \in DOMAIN results[g].value.speech
        /\ DOMAIN results[h].value.speech = {"ssml"}
        /\ pc[g] = "returned" /\ pc[h] = "returned"

\* C8: whatever the dispatch outcome, the published sessionId is the event's
\* sessionId when the event has one and 'default' when it has none.
C8_SessionIdEchoed ==
    \A i \in DOMAIN published :
        LET obj == inbox[published[i].h].doc.obj
        IN published[i].payload.sessionId =
               IF "sessionId" \in DOMAIN obj
               THEN JsonString(obj.sessionId.s)
               ELSE JsonString("default")

\* an event with a sessionId and an event without one were both answered,
\* one after a failed dispatch and one after a successful one
C8_Witness ==
    \E i, j \in DOMAIN published :
        /\ "sessionId" \in DOMAIN inbox[published[i].h].doc.obj
        /\ "sessionId" \notin DOMAIN inbox[published[j].h].doc.obj
        /\ results[published[i].h].exc # ""
        /\ results[published[j].h].exc = ""

Occurs(sep, s) == find(s, sep) # 0

\* t is what follows an occurrence of sep in name and holds no sep itself,
\* or is the whole of a name that holds no sep
IsLastSegment(t, name, sep) ==
    /\ ~Occurs(sep, t)
    /\ Len(t) <= Len(name)
    /\ SubSeq(name, Len(name) - Len(t) + 1, Len(name)) = t
    /\ IF Occurs(sep, name)
       THEN /\ Len(t) + Len(sep) <= Len(name)
            /\ SubSeq(name, Len(name) - Len(t) - Len(sep) + 1,
                      Len(name) - Len(t)) = sep
       ELSE t = name

\* C9: the intent type passed to the dispatcher is the last '__' segment of
\* an intentName that starts with 'user_' (whatever ':' it holds), and the
\* last ':' segment of any other intentName; 'user_ABCDEF123__Lights' and
\* 'username:Lights' both give 'Lights'.
C9_IntentTypeDerived ==
    \A i \in DOMAIN calls :
        LET name == inbox[calls[i].h].doc.obj.intent.intentName.s
            t == calls[i].intent_type
        IN /\ IF Len(name) >= 5 /\ SubSeq(name, 1, 5) = <<"u", "s", "e", "r", "_">>
              THEN IsLastSegment(t, name, <<"_", "_">>)
              ELSE IsLastSegment(t, name, <<":">>)
           /\ name = <<"u", "s", "e", "r", "_", "A", "B", "C", "D", "E", "F",
                       "1", "2", "3", "_", "_", "L", "i", "g", "h", "t", "s">>
                  => t = <<"L", "i", "g", "h", "t", "s">>
           /\ name = <<"u", "s", "e", "r", "n", "a", "m", "e", ":",
                       "L", "i", "g", "h", "t", "s">>
                  => t = <<"L", "i", "g", "h", "t", "s">>

\* a name that starts with 'user_' and holds both '__' and ':' was dispatched
C9_Witness ==
    \E i \in DOMAIN calls :
        LET name == inbox[calls[i].h].doc.obj.intent.intentName.s
        IN /\ startswith(name, USER_PREFIX)
           /\ Occurs(USER_SEP, name)
           /\ Occurs(NAME_SEP, name)
           /\ calls[i].intent_type # name

\* C10: a slot of entity 'snips/duration' resolves to the total number of
\* seconds weeks*7*86400 + days*86400 + hours*3600 + minutes*60 + seconds,
\* durations of a day or more included.
C10_DurationTotalSeconds ==
    \A i \in DOMAIN calls :
        LET obj == inbox[calls[i].h].doc.obj
        IN \A k \in (IF "slots" \in DOMAIN obj
                      THEN DOMAIN obj.slots ELSE {}) :
               LET slot == obj.slots[k]
               IN ("entity" \in DOMAIN slot
                       /\ slot.entity = PyStr("snips/duration")) =>
                      calls[i].slots[slot.slotName.s].value =
                          PyInt(slot.value.weeks.n * 7 * 86400
                                + slot.value.days.n * 86400
                                + slot.value.hours.n * 3600
                                + slot.value.minutes.n * 60
                                + slot.value.seconds.n)

\* the 'slots' list of an event, empty when the event has none
SlotsOf(obj) == IF "slots" \in DOMAIN obj THEN obj.slots ELSE <<>>

IsDurationSlot(slot) ==
    "entity" \in DOMAIN slot /\ slot.entity = PyStr("snips/duration")

\* C11: a non-duration slot resolves to value.value when the value object
\* has it and otherwise to the rawValue of that same value object, so that
\* every slot the schema accepts resolves without error.
C11_ValueOrItsRawValue ==
    \A h \in Handlers :
        LET obj == inbox[h].doc.obj
        IN (/\ IsValidEvent(inbox[h])
            /\ \A k \in DOMAIN SlotsOf(obj) : ~IsDurationSlot(SlotsOf(obj)[k])
            /\ Len(SlotsOf(obj)) = 1
            /\ pc[h] # "pending") =>
               /\ pc[h] # "raised"
               /\ \A i \in CallsOf(h) :
                      LET slot == obj.slots[1]
                          got == calls[i].slots[slot.slotName.s].value
                      IN /\ "value" \in DOMAIN slot.value =>
                                got = slot.value.value
                         /\ ("value" \notin DOMAIN slot.value
                                /\ "rawValue" \in DOMAIN slot.value) =>
                                got = slot.value.rawValue

\* C12: the slot mapping passed to the dispatcher has the slot names of the
\* event as its keys, each mapped to {value: resolved value} of the last
\* slot of that name; an event without 'slots' gives the empty mapping.
C12_SlotMappingLastWins ==
    \A i \in DOMAIN calls :
        LET list == SlotsOf(inbox[calls[i].h].doc.obj)
        IN /\ DOMAIN calls[i].slots
                  = {list[k].slotName.s : k \in DOMAIN list}
           /\ \A k \in DOMAIN list :
                  (\A j \in DOMAIN list :
                       j > k => list[j].slotName # list[k].slotName) =>
                      calls[i].slots[list[k].slotName.s]
                          = [value |-> resolve_slot_values(list[k]).value]

\* an event that names the same slot twice, with two values, was dispatched
C12_Witness ==
    \E i \in DOMAIN calls :
        LET list == SlotsOf(inbox[calls[i].h].doc.obj)
        IN /\ Len(list) = 2
           /\ list[1].slotName = list[2].slotName
           /\ list[1].value.value # list[2].value.value
           /\ calls[i].slots[list[2].slotName.s].value = list[2].value.value

TextFor(outcome) ==
    CASE outcome.exc = "UnknownIntent" -> JsonString("Unknown Intent")
      [] outcome.exc = "IntentError" ->
             JsonString("Error while handling intent")
      [] outcome.exc = "" ->
             IF "plain" \in DOMAIN outcome.value.speech
             THEN JsonString(outcome.value.speech.plain.speech.s)
             ELSE JsonNull

\* C14: handlers that interleave at the dispatcher call share nothing: each
\* notification carries the sessionId of its own message and the text of
\* its own dispatch outcome, a suspended handler can always be resumed and
\* the next message can always be delivered, whatever the others do.
C14_HandlersIndependent ==
    /\ \A i \in DOMAIN published :
           LET h == published[i].h
               obj == inbox[h].doc.obj
           IN /\ published[i].payload.sessionId =
                     IF "sessionId" \in DOMAIN obj
                     THEN JsonString(obj.sessionId.s)
                     ELSE JsonString("default")
              /\ published[i].payload.text = TextFor(results[h])
    /\ \A h \in Handlers :
           /\ pc[h] = "awaiting" => ENABLED Resume(h)
           /\ (pc[h] = "pending"
                 /\ \A k \in Handlers : k < h => pc[k] # "pending") =>
                  ENABLED Receive(h)

\* two handlers were suspended together and the second message was answered
\* first, with another sessionId and another text than the first
C14_Witness ==
    /\ Len(published) = 2
    /\ Len(calls) = 2
    /\ published[1].h = 2
    /\ published[2].h = 1
    /\ published[1].payload.sessionId # published[2].payload.sessionId
    /\ published[1].payload.text # published[2].payload.text

\* C15: when logout completes, the three tokens are None, is_logged_in is
\* False and the cached Google Assistant config is cleared; the credentials
\* are untouched while iot.disconnect() is awaited, and the auth file is
\* removed only after they are cleared.
C15_LogoutClearsCredentials ==
    /\ cloud.logout = "done" =>
           /\ cloud.id_token = PyNone
           /\ cloud.access_token = PyNone
           /\ cloud.refresh_token = PyNone
           /\ ~is_logged_in(cloud)
           /\ cloud.gactions_config = PyNone
           /\ ~cloud.auth_file.exists
    /\ cloud.logout = "disconnecting" =>
           /\ cloud.id_token = cloud.before.id_token
           /\ cloud.access_token = cloud.before.access_token
           /\ cloud.refresh_token = cloud.before.refresh_token
           /\ cloud.auth_file = cloud.before.auth_file
    /\ cloud.logout = "removing" =>
           /\ cloud.id_token = PyNone
           /\ cloud.access_token = PyNone
           /\ cloud.refresh_token = PyNone
           /\ cloud.gactions_config = PyNone
           /\ cloud.iot = "disconnected"
           /\ cloud.auth_file = cloud.before.auth_file

\* a logout that began logged in, with the config cached and the IoT
\* connection up, has completed
C15_Witness ==
    /\ cloud.configured
    /\ cloud.logout = "done"
    /\ cloud.before.id_token # PyNone
    /\ cloud.before.refresh_token # PyNone
    /\ cloud.before.gactions_config # PyNone
    /\ cloud.before.auth_file.exists

\* C16: the brightness property is between 0 and 255 in every state of the
\* lamp entity, from its construction on, and the brightness turn_on sends
\* to the lamp is between 0 and 200.
C16_BrightnessInRange ==
    /\ brightness_of(lamp) \in 0..255
    /\ lamp.device.brightness \in 0..200
    /\ \A b \in 0..255 : to_lamp_brightness(b) \in 0..200

====
